---- MODULE Spec2Model ----
(***************************************************************************)
(* Verification model of the DMCFE repository: the DSum masking protocol,  *)
(* the centralized MCFE scheme, the decentralized DMCFE scheme with its    *)
(* simulated bus protocol, and the baby-step/giant-step DLP solver.        *)
(*                                                                         *)
(* The BLS12-381 groups are modelled "in the exponent": a point of G1, G2  *)
(* or Gt is a tagged discrete logarithm modulo Order, the scalar field is  *)
(* the integers modulo Order, and the pairing multiplies the logarithms.   *)
(* Client ids are 1..n here where the code uses 0..n-1.                    *)
(***************************************************************************)
EXTENDS Integers, Sequences, FiniteSets, TLC

\* ------------------------------------------------------------------------
\* Bounds of the model
\* ------------------------------------------------------------------------

\* order of the scalar field and of the groups G1, G2, Gt (scaled down)
Order == 13
\* largest giant-step count handed to bsgs
MaxN == 4
\* scaled u32::MAX: the code's u32 is a 3-bit integer here, its u64 a 6-bit one
U32Max == 7
\* DSum: at most this many clients, private keys and payloads up to these
MaxClients == 3
MaxKey == 2
MaxData == 1
\* MCFE: number of clients and of contributions per client
McClients == 2
McContribs == 2
\* seeds of the random generators of the model
MaxSeed == 2
\* DMCFE: number of clients
DmClients == 2
\* number of decryption keys asked by the user
NB_DK == 2

Scalars == 0..(Order - 1)
\* baby-step counts handed to bsgs; Order + 1 baby steps wrap around the group
MaxM == Order + 1
U64Max == (U32Max + 1) * (U32Max + 1) - 1

\* ------------------------------------------------------------------------
\* Scalar field and groups
\* ------------------------------------------------------------------------

ScalarAdd(a, b) == (a + b) % Order
ScalarMul(a, b) == (a * b) % Order
ScalarNeg(a) == (Order - (a % Order)) % Order
ScalarSub(a, b) == ScalarAdd(a, ScalarNeg(b))
\* Scalar::from_raw([x, 0, 0, 0]): the integer x reduced into the field
ScalarFromRaw(x) == x % Order

G1(e) == <<"G1", e % Order>>
G1Identity == G1(0)
G1Generator == G1(1)
G1Add(P, Q) == G1(P[2] + Q[2])
G1Neg(P) == G1(ScalarNeg(P[2]))
G1Sub(P, Q) == G1Add(P, G1Neg(Q))
G1Mul(P, s) == G1(P[2] * s)
\* tools::smul_in_g1: s * G
smul_in_g1(s) == G1Mul(G1Generator, s)

G2(e) == <<"G2", e % Order>>
G2Identity == G2(0)
G2Generator == G2(1)
G2Add(P, Q) == G2(P[2] + Q[2])
G2Mul(P, s) == G2(P[2] * s)
smul_in_g2(s) == G2Mul(G2Generator, s)

Gt(e) == <<"Gt", e % Order>>
GtIdentity == Gt(0)
GtAdd(P, Q) == Gt(P[2] + Q[2])
GtSub(P, Q) == Gt(P[2] + ScalarNeg(Q[2]))
GtMul(P, s) == Gt(P[2] * s)
\* the bilinear pairing e: G1 x G2 -> Gt
pairing(P, Q) == Gt(P[2] * Q[2])

\* ------------------------------------------------------------------------
\* Labels and hash maps (crate::tools, crate::label)
\* ------------------------------------------------------------------------

\* a label is a byte string; its digest folds the bytes, position-sensitive
RECURSIVE LabelDigest(_)
LabelDigest(l) ==
    IF l = <<>> THEN 1
    ELSE (3 * LabelDigest(SubSeq(l, 1, Len(l) - 1)) + l[Len(l)] + 1) % Order

\* tools::hash_to_scalar(a, b, c, l): H_F of three G1 points and a label
hash_to_scalar(a, b, c, l) ==
    (3 * a[2] + 5 * b[2] + 7 * c[2] * c[2] + LabelDigest(l) + 1) % Order

\* tools::hash_to_curve and tools::hash_to_curve_in_g1: H_G1 of a label
hash_to_curve_in_g1(l) == G1(2 * LabelDigest(l) + 1)
\* tools::hash_to_curve_in_g2: H_G2 of a label
hash_to_curve_in_g2(l) == G2(5 * LabelDigest(l) + 3)
\* double_hash: the hashes of l || 0x01 and l || 0x02
double_hash_to_curve_in_g1(l) ==
    <<hash_to_curve_in_g1(l \o <<1>>), hash_to_curve_in_g1(l \o <<2>>)>>
double_hash_to_curve_in_g2(l) ==
    <<hash_to_curve_in_g2(l \o <<1>>), hash_to_curve_in_g2(l \o <<2>>)>>
\* the MCFE label is a usize: hashed through its byte encoding
hash_to_curve(l) == hash_to_curve_in_g1(<<l>>)
double_hash_to_curve(l) == double_hash_to_curve_in_g1(<<l>>)

\* the k-th scalar drawn from a random generator seeded with seed
Rand(seed, k) == (seed * seed * (k + 2) + 3 * k + seed) % Order

\* sums of sequences of scalars and of G1 points
RECURSIVE ScalarSum(_)
ScalarSum(v) ==
    IF v = <<>> THEN 0
    ELSE ScalarAdd(ScalarSum(SubSeq(v, 1, Len(v) - 1)), v[Len(v)])
RECURSIVE G1Sum(_)
G1Sum(v) ==
    IF v = <<>> THEN G1Identity
    ELSE G1Add(G1Sum(SubSeq(v, 1, Len(v) - 1)), v[Len(v)])
RECURSIVE G2Sum(_)
G2Sum(v) ==
    IF v = <<>> THEN G2Identity
    ELSE G2Add(G2Sum(SubSeq(v, 1, Len(v) - 1)), v[Len(v)])
RECURSIVE GtSum(_)
GtSum(v) ==
    IF v = <<>> THEN GtIdentity
    ELSE GtAdd(GtSum(SubSeq(v, 1, Len(v) - 1)), v[Len(v)])
Min(a, b) == IF a < b THEN a ELSE b
\* zip of two sequences stops at the shorter one
ZipLen(a, b) == Min(Len(a), Len(b))

\* ------------------------------------------------------------------------
\* DSum (src/src/dsum.rs)
\* ------------------------------------------------------------------------

\* mutant: the Less branch forgets to negate the mask
h_not_negated(l, ti, tj) ==
    LET i == ti[1]  sk == ti[2]  j == tj[1]  pk == tj[2] IN
    IF j = i THEN 0
    ELSE IF j < i
         THEN hash_to_scalar(pk, smul_in_g1(sk), G1Mul(pk, sk), l)
         ELSE hash_to_scalar(smul_in_g1(sk), pk, G1Mul(pk, sk), l)

\* mutant: the Greater branch hashes the two public keys in the order of the
\* Less branch
h_same_order(l, ti, tj) ==
    LET i == ti[1]  sk == ti[2]  j == tj[1]  pk == tj[2] IN
    IF j < i
    THEN ScalarNeg(hash_to_scalar(pk, smul_in_g1(sk), G1Mul(pk, sk), l))
    ELSE IF j = i
         THEN 0
         ELSE hash_to_scalar(pk, smul_in_g1(sk), G1Mul(pk, sk), l)

\* h(l, (i, sk), (j, pk)): the mask client i adds for peer j
h(l, ti, tj) ==
    LET i == ti[1]  sk == ti[2]  j == tj[1]  pk == tj[2] IN
    IF j < i
    THEN ScalarNeg(hash_to_scalar(pk, smul_in_g1(sk), G1Mul(pk, sk), l))
    ELSE IF j = i
         THEN 0
         ELSE hash_to_scalar(smul_in_g1(sk), pk, G1Mul(pk, sk), l)

\* the fold of encode over the first k entries of pk, from the accumulator x
RECURSIVE EncodeFold(_, _, _, _, _, _)
EncodeFold(k, i, x, ski, pk, l) ==
    IF k = 0 THEN x
    ELSE ScalarAdd(EncodeFold(k - 1, i, x, ski, pk, l),
                   h(l, <<i, ski>>, <<pk[k][1], pk[k][2]>>))

\* mutant: the fold starts from zero instead of the payload
encode_drops_payload(i, x, ski, pk, l) == EncodeFold(Len(pk), i, 0, ski, pk, l)

\* encode(i, x, ski, pk, l)
encode(i, x, ski, pk, l) == EncodeFold(Len(pk), i, x % Order, ski, pk, l)

\* the values of h that the fold of encode adds, one per entry of pk
EncodeMasks(i, ski, pk, l) ==
    [k \in 1..Len(pk) |-> h(l, <<i, ski>>, <<pk[k][1], pk[k][2]>>)]

\* combine(c): the sum of the ciphertexts
RECURSIVE combine(_)
combine(c) ==
    IF c = <<>> THEN 0
    ELSE ScalarAdd(combine(SubSeq(c, 1, Len(c) - 1)), c[Len(c)])

\* ------------------------------------------------------------------------
\* MCFE (src/src/ip_mcfe.rs)
\* ------------------------------------------------------------------------

\* tools::random_mat_gen(m, 2): m rows of 2 scalars, drawn from index k0 on
random_mat_gen(m, seed, k0) ==
    [j \in 1..m |-> <<Rand(seed, k0 + 2 * j - 2), Rand(seed, k0 + 2 * j - 1)>>]
\* ipfe::setup(m): the master secret key, m scalars drawn from index k0 on
ipfe_setup(m, seed, k0) == [j \in 1..m |-> Rand(seed, k0 + j - 1)]

\* setup(n, m): per client the IPFE key is drawn first, then the matrix
mcfe_setup(n, m, seed) ==
    [i \in 1..n |->
        LET k0 == 3 * m * (i - 1)
            ip_msk == ipfe_setup(m, seed, k0)
        IN <<random_mat_gen(m, seed, k0 + m), ip_msk>>]

\* tools::mat_mul(S, V): the rows of S times the G1 vector V
mat_mul(S, V) ==
    [j \in 1..Len(S) |->
        G1Sum([k \in 1..ZipLen(S[j], V) |-> G1Mul(V[k], S[j][k])])]
\* tools::transpose
transpose(S) ==
    IF S = <<>> THEN <<>>
    ELSE [k \in 1..Len(S[1]) |-> [j \in 1..Len(S) |-> S[j][k]]]
\* tools::scal_mat_mul_dim_2(M, y): the rows of M times the scalar vector y
scal_mat_mul_dim_2(M, y) ==
    [k \in 1..Len(M) |->
        ScalarSum([j \in 1..ZipLen(M[k], y) |-> ScalarMul(M[k][j], y[j])])]

\* mutant: the IPFE mask uses the double hash component instead of Ul
mcfe_encrypt_wrong_mask(eki, xi, l) ==
    LET Si == eki[1]  mski == eki[2]
        Ul == double_hash_to_curve(l)[1]
        R1 == mat_mul(Si, double_hash_to_curve(l))
        R2 == [j \in 1..Len(mski) |-> G1Mul(Ul, mski[j])]
        ci == [j \in 1..ZipLen(xi, R1) |-> G1Add(R1[j], G1Mul(G1Generator, xi[j]))]
    IN [j \in 1..ZipLen(ci, R2) |-> G1Add(R2[j], ci[j])]

\* encrypt(eki, xi, l)
mcfe_encrypt(eki, xi, l) ==
    LET Si == eki[1]  mski == eki[2]
        Ul == hash_to_curve(l)
        R1 == mat_mul(Si, double_hash_to_curve(l))
        R2 == [j \in 1..Len(mski) |-> G1Mul(Ul, mski[j])]
        ci == [j \in 1..ZipLen(xi, R1) |-> G1Add(R1[j], G1Mul(G1Generator, xi[j]))]
    IN [j \in 1..ZipLen(ci, R2) |-> G1Add(R2[j], ci[j])]

\* dkey_gen(eki, yi): (yi, Si^T * yi, <yi, mski>)
mcfe_dkey_gen(eki, yi) ==
    LET Si == eki[1]  mski == eki[2]
        dky_i == scal_mat_mul_dim_2(transpose(Si), yi)
    IN <<yi, <<dky_i[1], dky_i[2]>>,
         ScalarSum([j \in 1..ZipLen(yi, mski) |-> ScalarMul(yi[j], mski[j])])>>

\* key_comb(dki): stack the yi, sum the di, keep the ip_dki
mcfe_key_comb(dki) ==
    <<[i \in 1..Len(dki) |-> dki[i][1]],
      <<ScalarSum([i \in 1..Len(dki) |-> dki[i][2][1]]),
        ScalarSum([i \in 1..Len(dki) |-> dki[i][2][2]])>>,
      [i \in 1..Len(dki) |-> dki[i][3]]>>

\* decrypt(C, dk, l)
mcfe_decrypt(C, dk, l) ==
    LET Ul == hash_to_curve(l)
        nz == Min(ZipLen(C, dk[1]), Len(dk[3]))
        dl == G1Sum([i \in 1..nz |->
                 G1Sub(G1Sum([j \in 1..ZipLen(C[i], dk[1][i]) |->
                                 G1Mul(C[i][j], dk[1][i][j])]),
                       G1Mul(Ul, dk[3][i]))])
        u == double_hash_to_curve(l)
        d == G1Sum([k \in 1..ZipLen(dk[2], u) |-> G1Mul(u[k], dk[2][k])])
    IN G1Sub(dl, d)

\* ------------------------------------------------------------------------
\* DMCFE (src/src/ipdmcfe.rs)
\* ------------------------------------------------------------------------

\* the compressed encoding of a G1 point, which orders the public keys
CompressedG1(P) == (P[2] + 3) % Order

\* the mask of the DSum encode that t_gen calls: it takes no client id and
\* orders the two parties by their public keys
dsum_h_by_key(l, ski, pkj) ==
    LET pk_self == smul_in_g1(ski) IN
    IF pkj = pk_self THEN 0
    ELSE IF CompressedG1(pkj) > CompressedG1(pk_self)
         THEN hash_to_scalar(pk_self, pkj, G1Mul(pkj, ski), l)
         ELSE ScalarNeg(hash_to_scalar(pkj, pk_self, G1Mul(pkj, ski), l))

\* dsum::encode(x, ski, dpk, l) as t_gen calls it
dsum_encode_by_key(x, ski, dpk, l) ==
    ScalarAdd(x, ScalarSum([j \in 1..Len(dpk) |-> dsum_h_by_key(l, ski, dpk[j])]))

\* Label::from("Setup")
SetupLabel == <<83, 101, 116, 117, 112>>
\* Label::from(y): the scalars of y, each at a fixed width
LabelFromScalars(y) == y

\* mutant: the entries of T encode the payload one instead of zero
t_gen_encodes_one(dski, dpk) ==
    [i \in 1..4 |-> dsum_encode_by_key(1, dski, dpk, SetupLabel \o <<i - 1>>)]

\* t_gen(dski, dpk): the 2x2 matrix Ti, row-major
t_gen(dski, dpk) ==
    [i \in 1..4 |-> dsum_encode_by_key(0, dski, dpk, SetupLabel \o <<i - 1>>)]

\* setup(dski, dpk, rng): s is drawn from rng, whose next draws are k0, k0 + 1
dmcfe_setup(dski, dpk, seed, k0) ==
    [s |-> <<Rand(seed, k0), Rand(seed, k0 + 1)>>, t |-> t_gen(dski, dpk)]

\* TMat * DVec for a scalar matrix and a G2 vector
TMatMulDVec(t, v) ==
    <<G2Add(G2Mul(v[1], t[1]), G2Mul(v[2], t[2])),
      G2Add(G2Mul(v[1], t[3]), G2Mul(v[2], t[4]))>>

\* mutant: the share uses the first component of y instead of y[id]
dkey_gen_share_first_y(id, ski, y) ==
    LET v == double_hash_to_curve_in_g2(LabelFromScalars(y))
        tv == TMatMulDVec(ski.t, v)
    IN <<G2Add(G2Mul(G2Generator, ScalarMul(ski.s[1], y[1])), tv[1]),
         G2Add(G2Mul(G2Generator, ScalarMul(ski.s[2], y[1])), tv[2])>>

\* dkey_gen_share(id, ski, y)
dkey_gen_share(id, ski, y) ==
    LET v == double_hash_to_curve_in_g2(LabelFromScalars(y))
        tv == TMatMulDVec(ski.t, v)
    IN <<G2Add(G2Mul(G2Generator, ScalarMul(ski.s[1], y[id])), tv[1]),
         G2Add(G2Mul(G2Generator, ScalarMul(ski.s[2], y[id])), tv[2])>>

\* mutant: the fold keeps the last partial key instead of adding it
dmcfe_key_comb_last_wins(y, pdk) ==
    [y |-> y,
     d |-> IF pdk = <<>> THEN <<G2Identity, G2Identity>>
           ELSE <<pdk[Len(pdk)][1], pdk[Len(pdk)][2]>>]

\* key_comb(y, pdk)
dmcfe_key_comb(y, pdk) ==
    [y |-> y,
     d |-> <<G2Sum([i \in 1..Len(pdk) |-> pdk[i][1]]),
             G2Sum([i \in 1..Len(pdk) |-> pdk[i][2]])>>]

\* encrypt(xi, ski, l)
dmcfe_encrypt(xi, ski, l) ==
    LET u == double_hash_to_curve_in_g1(l) IN
    G1Add(G1Add(G1Mul(u[1], ski.s[1]), G1Mul(u[2], ski.s[2])), smul_in_g1(xi))

\* decrypt(c, dk, l)
dmcfe_decrypt(c, dk, l) ==
    LET u == double_hash_to_curve_in_g1(l) IN
    GtSub(GtSum([i \in 1..ZipLen(c, dk.y) |-> pairing(c[i], smul_in_g2(dk.y[i]))]),
          GtSum([k \in 1..ZipLen(u, dk.d) |-> pairing(u[k], dk.d[k])]))

\* ------------------------------------------------------------------------
\* The DMCFE simulation helpers (src/tests/dmcfe.rs)
\* ------------------------------------------------------------------------

\* reorder(v): the elements of v sorted by the id they came with
reorder(v) ==
    LET ids == {v[k].id : k \in 1..Len(v)}
        Rank(i) == Cardinality({j \in ids : j < i}) + 1
        At(r) == CHOOSE k \in 1..Len(v) : Rank(v[k].id) = r
    IN [r \in 1..Len(v) |-> [c |-> v[At(r)].c, l |-> v[At(r)].l]]

\* mutant: the labels are not compared
check_labels_unchecked(c) ==
    [ok |-> TRUE, c |-> [k \in 1..Len(c) |-> c[k].c], l |-> c[1].l]

\* check_labels(c): an error unless every label equals the first one
check_labels(c) ==
    IF \A k \in 2..Len(c) : c[k].l = c[1].l
    THEN [ok |-> TRUE, c |-> [k \in 1..Len(c) |-> c[k].c], l |-> c[1].l]
    ELSE [ok |-> FALSE, c |-> <<>>, l |-> <<>>]

\* ------------------------------------------------------------------------
\* BSGS (src/src/discrete_logarithm.rs)
\* ------------------------------------------------------------------------

\* SHA256 of the compressed encoding of a G1 point: an injective fingerprint
Sha256OfG1(P) == <<"sha256", P[2]>>

EmptyPairs == [d \in {} |-> 0]

\* the for loop of precomputation: panics when insert returns Some(j)
RECURSIVE PrecompLoop(_, _, _, _)
PrecompLoop(i, m, P_i, pairs) ==
    IF i >= m THEN [panic |-> FALSE, pairs |-> pairs]
    ELSE LET res == Sha256OfG1(P_i) IN
         IF res \in DOMAIN pairs
         THEN [panic |-> TRUE, pairs |-> pairs]
         ELSE PrecompLoop(i + 1, m, G1Add(P_i, G1Generator), pairs @@ (res :> i))

\* mutant: the baby steps start at G, so the identity is never stored
precomputation_from_G(m) == PrecompLoop(0, m, G1Generator, EmptyPairs)

precomputation(m) == PrecompLoop(0, m, G1Identity, EmptyPairs)

\* interface::get_inverse(G, m): the inverse of m * G
get_inverse(P, m) == G1Neg(G1Mul(P, m))

\* the while loop of iterate; lookups counts the executions of the loop body
RECURSIVE IterLoop(_, _, _, _, _, _, _)
IterLoop(k, Q_k, P_k, P, Q, n, st) ==
    IF k < n
    THEN LET hash_res == Sha256OfG1(P_k) IN
         IF hash_res \in DOMAIN st.pairs
         THEN [found |-> TRUE, k |-> k, value |-> st.pairs[hash_res],
               lookups |-> st.lookups + 1]
         ELSE IterLoop(k + 1, G1Add(Q_k, Q), G1Add(G1Add(Q_k, Q), P), P, Q, n,
                       [st EXCEPT !.lookups = @ + 1])
    ELSE [found |-> FALSE, k |-> k, value |-> 0, lookups |-> st.lookups]

\* mutant: the loop condition is k <= n
iterate_off_by_one(P, Q, n, pairs) ==
    IterLoop(0, G1Identity, G1Add(G1Identity, P), P, Q, n + 1,
             [pairs |-> pairs, lookups |-> 0])

iterate(P, Q, n, pairs) ==
    IterLoop(0, G1Identity, G1Add(G1Identity, P), P, Q, n,
             [pairs |-> pairs, lookups |-> 0])

\* mutant: the result is the baby-step index alone, without k * m
bsgs_drops_giant_steps(P, m, n) ==
    LET pre == precomputation(m) IN
    IF pre.panic
    THEN [kind |-> "Panic", val |-> 0, lookups |-> 0, k |-> 0]
    ELSE LET Q == get_inverse(G1Generator, m)
             res == iterate(P, Q, n, pre.pairs)
         IN IF res.found
            THEN [kind |-> "Ok", val |-> res.value,
                  lookups |-> res.lookups, k |-> res.k]
            ELSE [kind |-> "Err", val |-> 0, lookups |-> res.lookups, k |-> res.k]

\* mutant: the result is assembled as k * n + i
bsgs_scales_by_n(P, m, n) ==
    LET pre == precomputation(m) IN
    IF pre.panic
    THEN [kind |-> "Panic", val |-> 0, lookups |-> 0, k |-> 0]
    ELSE LET Q == get_inverse(G1Generator, m)
             res == iterate(P, Q, n, pre.pairs)
         IN IF res.found
            THEN [kind |-> "Ok", val |-> res.k * n + res.value,
                  lookups |-> res.lookups, k |-> res.k]
            ELSE [kind |-> "Err", val |-> 0, lookups |-> res.lookups, k |-> res.k]

\* bsgs: kind is "Ok" (val = x), "Err" (NotFound) or "Panic" (collision in
\* precomputation); lookups is the number of loop iterations of iterate
bsgs(P, m, n) ==
    LET pre == precomputation(m) IN
    IF pre.panic
    THEN [kind |-> "Panic", val |-> 0, lookups |-> 0, k |-> 0]
    ELSE LET Q == get_inverse(G1Generator, m)
             res == iterate(P, Q, n, pre.pairs)
         IN IF res.found
            THEN [kind |-> "Ok", val |-> res.k * m + res.value,
                  lookups |-> res.lookups, k |-> res.k]
            ELSE [kind |-> "Err", val |-> 0, lookups |-> res.lookups, k |-> res.k]

\* ------------------------------------------------------------------------
\* State
\* ------------------------------------------------------------------------

VARIABLES
    bX,       \* BSGS: the exponent the caller built P from
    bP,       \* BSGS: the point P handed to bsgs
    bM,       \* BSGS: m
    bN,       \* BSGS: n
    bRes,     \* BSGS: the outcome of the call, NoCall before it
    tM,       \* get_time_dlp: the argument m
    tOut,     \* get_time_dlp: the outcome, NoCall before it
    dsN,      \* DSum: number of clients of the round
    dsLabel,  \* DSum: the label of the round
    dsKeys,   \* DSum: the key pairs <<sk, pk>> of the clients set up so far
    dsEnc,    \* DSum: client -> [x, c, h], the payload and ciphertext last
              \*       encoded and the masks h that encode added, per peer
    dsRe,     \* DSum: TRUE once a client has re-encoded in a complete round
    dsSum,    \* DSum: the output of combine, kind "None" before it
    mcN,      \* MCFE: number of clients
    mcM,      \* MCFE: number of contributions per client
    mcLabel,  \* MCFE: the label of the round
    mcEk,     \* MCFE: the encryption keys of setup, <<>> before it
    mcX,      \* MCFE: client -> the contribution it encrypted, <<>> before
    mcY,      \* MCFE: client -> its part of the decryption function
    mcChan,   \* MCFE: the contributions received, in order of arrival
    mcRes,    \* MCFE: the output of decrypt, kind "None" before it
    dmN,      \* DMCFE: number of clients
    dmPc,     \* DMCFE: client -> Uninitialized, KeysPublished or Ready
    dmSeed,   \* DMCFE: client -> the seed of its random generator
    dmDsk,    \* DMCFE: client -> its DSum key pair <<sk, pk>>
    dmSk,     \* DMCFE: client -> its private key [s, t]
    dmSent,   \* DMCFE: client -> [done, x, l], what it encrypted and sent
    dmCi,     \* DMCFE: the ciphertext bus, messages [c, l, id] as received
    dmY,      \* DMCFE: the decryption functions broadcast so far
    dmAns,    \* DMCFE: client -> number of decryption functions answered
    dmDkBus,  \* DMCFE: the partial keys [id, d] received for the last y
    dmDkList, \* DMCFE: the decryption keys combined so far
    dmUser,   \* DMCFE: the outcome of decrypt_simulation
    dmLib     \* DMCFE: the outcome of a direct call of ipdmcfe::decrypt

bsgsVars == <<bX, bP, bM, bN, bRes>>
dlpVars == <<tM, tOut>>
dsumVars == <<dsN, dsLabel, dsKeys, dsEnc, dsRe, dsSum>>
mcfeVars == <<mcN, mcM, mcLabel, mcEk, mcX, mcY, mcChan, mcRes>>
dmVars == <<dmN, dmPc, dmSeed, dmDsk, dmSk, dmSent, dmCi, dmY, dmAns, dmDkBus,
           dmDkList, dmUser, dmLib>>
vars == <<bsgsVars, dlpVars, dsumVars, mcfeVars, dmVars>>

NoCall == [kind |-> "NoCall", val |-> 0, lookups |-> 0, k |-> 0]

DlpNoCall == [kind |-> "NoCall", n |-> 0, x |-> 0]
NoSum == [kind |-> "None", val |-> 0]

BsgsIdle == bX = 0 /\ bP = G1Identity /\ bM = 0 /\ bN = 0 /\ bRes = NoCall
DlpIdle == tM = 0 /\ tOut = DlpNoCall
DsumIdle ==
    /\ dsN = 0 /\ dsLabel = <<>> /\ dsKeys = <<>>
    /\ dsEnc = <<>> /\ dsRe = FALSE /\ dsSum = NoSum

NoPoint == [kind |-> "None", val |-> G1Identity]
McfeIdle ==
    /\ mcN = 0 /\ mcM = 0 /\ mcLabel = 0 /\ mcEk = <<>>
    /\ mcX = <<>> /\ mcY = <<>> /\ mcChan = <<>> /\ mcRes = NoPoint

NoUser == [kind |-> "None", res |-> <<>>]
NoLib == [kind |-> "None", mixed |-> FALSE, out |-> GtIdentity]
DmIdle ==
    /\ dmN = 0 /\ dmPc = <<>> /\ dmSeed = <<>> /\ dmDsk = <<>> /\ dmSk = <<>>
    /\ dmSent = <<>> /\ dmCi = <<>> /\ dmY = <<>> /\ dmAns = <<>>
    /\ dmDkBus = <<>> /\ dmDkList = <<>> /\ dmUser = NoUser /\ dmLib = NoLib

\* ------------------------------------------------------------------------
\* DSum: n clients set up keys, encode under one label, and combine
\* ------------------------------------------------------------------------

DsLabels == {<<7>>, <<1, 2>>}
NoEnc == [done |-> FALSE, x |-> 0, c |-> 0, h |-> <<>>]

DsumInit ==
    /\ dsN \in 1..MaxClients
    /\ dsLabel \in DsLabels
    /\ dsKeys = <<>>
    /\ dsEnc = [i \in 1..dsN |-> NoEnc]
    /\ dsRe = FALSE
    /\ dsSum = NoSum

\* the list of (id, public key) pairs every client is given
DsPkList == [j \in 1..Len(dsKeys) |-> <<j, dsKeys[j][2]>>]
DsAllEncoded(enc) == \A i \in 1..dsN : enc[i].done
DsCipherTexts(enc) == [i \in 1..dsN |-> enc[i].c]

\* client_setup(): the next client draws t and publishes t * G
DsClientSetup ==
    /\ Len(dsKeys) < dsN
    /\ \E t \in 1..MaxKey : dsKeys' = Append(dsKeys, <<t, smul_in_g1(t)>>)
    /\ UNCHANGED <<dsN, dsLabel, dsEnc, dsRe, dsSum, bsgsVars, dlpVars, mcfeVars, dmVars>>

\* client i encodes a payload x (again with another payload, if it had)
DsEncode(i) ==
    /\ Len(dsKeys) = dsN
    /\ \E x \in 0..MaxData :
          /\ ~(dsEnc[i].done /\ dsEnc[i].x = x)
          /\ dsEnc' = [dsEnc EXCEPT ![i] =
                 [done |-> TRUE, x |-> x,
                  c |-> encode(i, x, dsKeys[i][1], DsPkList, dsLabel),
                  h |-> EncodeMasks(i, dsKeys[i][1], DsPkList, dsLabel)]]
    /\ dsRe' = (dsRe \/ DsAllEncoded(dsEnc))
    /\ dsSum' = NoSum
    /\ UNCHANGED <<dsN, dsLabel, dsKeys, bsgsVars, dlpVars, mcfeVars, dmVars>>

\* combine over the ciphertexts of all clients
DsCombine ==
    /\ DsAllEncoded(dsEnc)
    /\ dsSum = NoSum
    /\ dsSum' = [kind |-> "Some", val |-> combine(DsCipherTexts(dsEnc))]
    /\ UNCHANGED <<dsN, dsLabel, dsKeys, dsEnc, dsRe, bsgsVars, dlpVars, mcfeVars, dmVars>>

InitDSum == DsumInit /\ BsgsIdle /\ DlpIdle /\ McfeIdle /\ DmIdle
NextDSum == DsClientSetup \/ (\E i \in 1..dsN : DsEncode(i)) \/ DsCombine
SpecDSum == InitDSum /\ [][NextDSum]_vars

\* ------------------------------------------------------------------------
\* MCFE: a dealer runs setup, n clients send their contribution, the
\* decryption client combines the keys and decrypts (src/tests/mcfe.rs)
\* ------------------------------------------------------------------------

McLabels == {3, 7}
\* the contribution rows and decryption-function rows the clients draw from
XRows(m) == {[j \in 1..m |-> (a + b * j) % Order] : a \in 0..MaxData, b \in {1, 4}}
YRows(m) == {[j \in 1..m |-> (c * j + 1) % Order] : c \in {0, 3}}

McfeInit ==
    /\ mcN \in 1..McClients
    /\ mcM \in 1..McContribs
    /\ mcLabel \in McLabels
    /\ mcEk = <<>>
    /\ mcX = [i \in 1..mcN |-> <<>>]
    /\ mcY = [i \in 1..mcN |-> <<>>]
    /\ mcChan = <<>>
    /\ mcRes = NoPoint

\* simulation: ip_mcfe::setup(n, m)
McSetup ==
    /\ mcEk = <<>>
    /\ \E seed \in 1..MaxSeed : mcEk' = mcfe_setup(mcN, mcM, seed)
    /\ UNCHANGED <<mcN, mcM, mcLabel, mcX, mcY, mcChan, mcRes,
                   bsgsVars, dlpVars, dsumVars, dmVars>>

\* encrypt_simulation: client i sends its ciphertexts and partial key
McEncryptSimulation(i) ==
    /\ mcEk # <<>>
    /\ mcX[i] = <<>>
    /\ \E xi \in XRows(mcM), yi \in YRows(mcM) :
          /\ mcX' = [mcX EXCEPT ![i] = xi]
          /\ mcY' = [mcY EXCEPT ![i] = yi]
          /\ mcChan' = Append(mcChan,
                 [id |-> i, cx |-> mcfe_encrypt(mcEk[i], xi, mcLabel),
                  key |-> mcfe_dkey_gen(mcEk[i], yi)])
    /\ UNCHANGED <<mcN, mcM, mcLabel, mcEk, mcRes, bsgsVars, dlpVars, dsumVars, dmVars>>

\* decrypt_simulation: after n contributions, key_comb and decrypt
McDecryptSimulation ==
    /\ Len(mcChan) = mcN
    /\ mcRes = NoPoint
    /\ LET C == [k \in 1..Len(mcChan) |-> mcChan[k].cx]
           keys == [k \in 1..Len(mcChan) |-> mcChan[k].key]
           dk == mcfe_key_comb(keys)
       IN mcRes' = [kind |-> "Some", val |-> mcfe_decrypt(C, dk, mcLabel)]
    /\ UNCHANGED <<mcN, mcM, mcLabel, mcEk, mcX, mcY, mcChan,
                   bsgsVars, dlpVars, dsumVars, dmVars>>

InitMCFE == McfeInit /\ BsgsIdle /\ DlpIdle /\ DsumIdle /\ DmIdle
NextMCFE ==
    McSetup \/ (\E i \in 1..mcN : McEncryptSimulation(i)) \/ McDecryptSimulation
SpecMCFE == InitMCFE /\ [][NextMCFE]_vars

\* ------------------------------------------------------------------------
\* DMCFE: n client threads and the user thread of the simulation, talking
\* over the buses pk, yi, dk and ci (src/tests/dmcfe.rs)
\* ------------------------------------------------------------------------

DmLabels == {<<1>>, <<2>>}
DmData == {2, 5}
\* the decryption functions the user draws from
YVecs(n) == {[i \in 1..n |-> (c * i + 1) % Order] : c \in {0, 2}}
\* the seeds of the clients' random generators
DmSeeds == {1, 2}
NoDsk == <<0, G1Identity>>
NoSk == [s |-> <<0, 0>>, t |-> <<0, 0, 0, 0>>]
NoSent == [done |-> FALSE, x |-> 0, l |-> <<>>]

DmInit ==
    /\ dmN = DmClients
    /\ dmPc = [i \in 1..dmN |-> "Uninitialized"]
    /\ dmSeed = [i \in 1..dmN |-> 0]
    /\ dmDsk = [i \in 1..dmN |-> NoDsk]
    /\ dmSk = [i \in 1..dmN |-> NoSk]
    /\ dmSent = [i \in 1..dmN |-> NoSent]
    /\ dmCi = <<>>
    /\ dmY = <<>>
    /\ dmAns = [i \in 1..dmN |-> 0]
    /\ dmDkBus = <<>>
    /\ dmDkList = <<>>
    /\ dmUser = NoUser
    /\ dmLib = NoLib

notDm == <<bsgsVars, dlpVars, dsumVars, mcfeVars>>

\* client_setup, first half: dsum::client_setup() and the broadcast of pk
DmClientSetup(i) ==
    /\ dmPc[i] = "Uninitialized"
    /\ \E seed \in DmSeeds :
          /\ dmSeed' = [dmSeed EXCEPT ![i] = seed]
          /\ dmDsk' = [dmDsk EXCEPT ![i] = <<Rand(seed, 0), smul_in_g1(Rand(seed, 0))>>]
    /\ dmPc' = [dmPc EXCEPT ![i] = "KeysPublished"]
    /\ UNCHANGED <<dmN, dmSk, dmSent, dmCi, dmY, dmAns, dmDkBus, dmDkList,
                   dmUser, dmLib, notDm>>

\* the public keys of all clients, as wait_n returns them
DmPkList == [j \in 1..dmN |-> dmDsk[j][2]]

\* mutant: setup is run on the keys published so far, without the wait
DmSetup_without_wait(i) ==
    /\ dmPc[i] = "KeysPublished"
    /\ dmSk' = [dmSk EXCEPT ![i] = dmcfe_setup(dmDsk[i][1], DmPkList, dmSeed[i], 1)]
    /\ dmPc' = [dmPc EXCEPT ![i] = "Ready"]
    /\ UNCHANGED <<dmN, dmSeed, dmDsk, dmSent, dmCi, dmY, dmAns, dmDkBus,
                   dmDkList, dmUser, dmLib, notDm>>

\* client_setup, second half: wait_n for every public key, ipdmcfe::setup
DmSetup(i) ==
    /\ dmPc[i] = "KeysPublished"
    /\ \A j \in 1..dmN : dmPc[j] # "Uninitialized"
    /\ dmSk' = [dmSk EXCEPT ![i] = dmcfe_setup(dmDsk[i][1], DmPkList, dmSeed[i], 1)]
    /\ dmPc' = [dmPc EXCEPT ![i] = "Ready"]
    /\ UNCHANGED <<dmN, dmSeed, dmDsk, dmSent, dmCi, dmY, dmAns, dmDkBus,
                   dmDkList, dmUser, dmLib, notDm>>

\* the encryption thread of client i: a label, a contribution, encrypt, and
\* the unicast of ((cij, l), id) to the user
DmEncrypt(i) ==
    /\ dmPc[i] = "Ready"
    /\ ~dmSent[i].done
    /\ \E l \in DmLabels, xi \in DmData :
          /\ dmSent' = [dmSent EXCEPT ![i] = [done |-> TRUE, x |-> xi, l |-> l]]
          /\ dmCi' = Append(dmCi, [c |-> dmcfe_encrypt(xi, dmSk[i], l), l |-> l, id |-> i])
    /\ UNCHANGED <<dmN, dmPc, dmSeed, dmDsk, dmSk, dmY, dmAns, dmDkBus,
                   dmDkList, dmUser, dmLib, notDm>>

\* get_decryption_key, first half: a new y is drawn and broadcast
DmAskKey ==
    /\ Len(dmY) < NB_DK
    /\ Len(dmDkList) = Len(dmY)
    /\ \E y \in YVecs(dmN) : dmY' = Append(dmY, y)
    /\ UNCHANGED <<dmN, dmPc, dmSeed, dmDsk, dmSk, dmSent, dmCi, dmAns, dmDkBus,
                   dmDkList, dmUser, dmLib, notDm>>

\* the loop of client_simulation: wait for y, dkey_gen_share, unicast
DmShare(i) ==
    /\ dmPc[i] = "Ready"
    /\ dmAns[i] < NB_DK
    /\ dmAns[i] < Len(dmY)
    /\ LET y == dmY[dmAns[i] + 1] IN
          dmDkBus' = Append(dmDkBus, [id |-> i, d |-> dkey_gen_share(i, dmSk[i], y)])
    /\ dmAns' = [dmAns EXCEPT ![i] = @ + 1]
    /\ UNCHANGED <<dmN, dmPc, dmSeed, dmDsk, dmSk, dmSent, dmCi, dmY,
                   dmDkList, dmUser, dmLib, notDm>>

\* mutant: wait_n is asked for one partial key less than there are clients
DmKeyComb_one_short ==
    /\ Len(dmDkList) < Len(dmY)
    /\ Len(dmDkBus) = dmN - 1
    /\ dmDkList' = Append(dmDkList,
          dmcfe_key_comb(dmY[Len(dmY)], [k \in 1..Len(dmDkBus) |-> dmDkBus[k].d]))
    /\ dmDkBus' = <<>>
    /\ UNCHANGED <<dmN, dmPc, dmSeed, dmDsk, dmSk, dmSent, dmCi, dmY, dmAns,
                   dmUser, dmLib, notDm>>

\* get_decryption_key, second half: wait_n for n partial keys, key_comb
DmKeyComb ==
    /\ Len(dmDkList) < Len(dmY)
    /\ Len(dmDkBus) = dmN
    /\ dmDkList' = Append(dmDkList,
          dmcfe_key_comb(dmY[Len(dmY)], [k \in 1..Len(dmDkBus) |-> dmDkBus[k].d]))
    /\ dmDkBus' = <<>>
    /\ UNCHANGED <<dmN, dmPc, dmSeed, dmDsk, dmSk, dmSent, dmCi, dmY, dmAns,
                   dmUser, dmLib, notDm>>

\* decrypt_simulation, after the keys: join the ciphertext thread, reorder,
\* check_labels, and decrypt with each decryption key
DmDecrypt ==
    /\ dmUser = NoUser
    /\ Len(dmDkList) = NB_DK
    /\ Len(dmCi) = dmN
    /\ LET chk == check_labels(reorder(dmCi)) IN
          dmUser' = IF chk.ok
                    THEN [kind |-> "Ok",
                          res |-> [r \in 1..Len(dmDkList) |->
                                      dmcfe_decrypt(chk.c, dmDkList[r], chk.l)]]
                    ELSE [kind |-> "Err", res |-> <<>>]
    /\ UNCHANGED <<dmN, dmPc, dmSeed, dmDsk, dmSk, dmSent, dmCi, dmY, dmAns,
                   dmDkBus, dmDkList, dmLib, notDm>>

\* a caller that holds the n ciphertexts and the decryption keys calls
\* ipdmcfe::decrypt(c, dk, l) itself, with the label of one of them
DmDecryptCall ==
    /\ dmLib = NoLib
    /\ Len(dmDkList) = NB_DK
    /\ Len(dmCi) = dmN
    /\ LET c == reorder(dmCi) IN
       \E k \in 1..Len(c) :
          dmLib' = [kind |-> "Gt",
                    mixed |-> (\E a, b \in 1..Len(c) : c[a].l # c[b].l),
                    out |-> dmcfe_decrypt([a \in 1..Len(c) |-> c[a].c],
                                          dmDkList[1], c[k].l)]
    /\ UNCHANGED <<dmN, dmPc, dmSeed, dmDsk, dmSk, dmSent, dmCi, dmY, dmAns,
                   dmDkBus, dmDkList, dmUser, notDm>>

InitDMCFE == DmInit /\ BsgsIdle /\ DlpIdle /\ DsumIdle /\ McfeIdle
NextDMCFE ==
    \/ \E i \in 1..dmN : DmClientSetup(i)
    \/ \E i \in 1..dmN : DmSetup(i)
    \/ \E i \in 1..dmN : DmEncrypt(i)
    \/ DmAskKey
    \/ \E i \in 1..dmN : DmShare(i)
    \/ DmKeyComb
    \/ DmDecrypt
SpecDMCFE == InitDMCFE /\ [][NextDMCFE]_vars

\* the simulation together with direct callers of the library
NextDMCFEApi == NextDMCFE \/ DmDecryptCall
SpecDMCFEApi == InitDMCFE /\ [][NextDMCFEApi]_vars

\* ------------------------------------------------------------------------
\* BSGS: a caller builds P = x * G and calls bsgs(P, m, n)
\* ------------------------------------------------------------------------

BsgsInit ==
    /\ bX \in Scalars
    /\ bP = G1Mul(G1Generator, ScalarFromRaw(bX))
    /\ bM \in 0..MaxM
    /\ bN \in 0..MaxN
    /\ bRes = NoCall

BsgsCall ==
    /\ bRes = NoCall
    /\ bRes' = bsgs(bP, bM, bN)
    /\ UNCHANGED <<bX, bP, bM, bN, dlpVars, dsumVars, mcfeVars, dmVars>>

InitBSGS == BsgsInit /\ DlpIdle /\ DsumIdle /\ McfeIdle /\ DmIdle
NextBSGS == BsgsCall
SpecBSGS == InitBSGS /\ [][NextBSGS]_vars

\* ------------------------------------------------------------------------
\* get_time_dlp (src/benches/benchmark_tools.rs)
\* ------------------------------------------------------------------------

\* (m as f64).sqrt() as u32: the integer square root, saturated at u32::MAX
SqrtAsU32(m) ==
    LET r == CHOOSE r \in 0..m : r * r <= m /\ (r + 1) * (r + 1) > m
    IN IF r > U32Max THEN U32Max ELSE r

\* the builds of the crate: u32 addition panics on overflow in a debug build
\* and wraps around in a release build
Builds == {"debug", "release"}

\* the outcome of get_time_dlp(m) once x is drawn, for one build
get_time_dlp(m, x, build) ==
    IF ~(m > U32Max * U32Max)
    THEN [kind |-> "ErrTooBig", n |-> 0, x |-> 0]
    ELSE LET sum == SqrtAsU32(m) + 1 IN
         IF sum > U32Max /\ build = "debug"
         THEN [kind |-> "PanicOverflow", n |-> 0, x |-> x]
         ELSE LET n == sum % (U32Max + 1)
                  p == G1Mul(G1Generator, ScalarFromRaw(x))
                  res == bsgs(p, n, n)
              IN CASE res.kind = "Panic" -> [kind |-> "PanicCollision", n |-> n, x |-> x]
                   [] res.kind = "Err" -> [kind |-> "ErrNotFound", n |-> n, x |-> x]
                   [] res.kind = "Ok" /\ res.val # x ->
                          [kind |-> "ErrWrongSolution", n |-> n, x |-> x]
                   [] OTHER -> [kind |-> "Ok", n |-> n, x |-> x]

DlpInit == tM \in 0..U64Max /\ tOut = DlpNoCall

\* gen_range(0..m) draws x; it is reached only with m > 0
GetTimeDlp ==
    /\ tOut = DlpNoCall
    /\ \E build \in Builds :
          \/ /\ ~(tM > U32Max * U32Max)
             /\ tOut' = get_time_dlp(tM, 0, build)
          \/ /\ tM > U32Max * U32Max
             /\ \E x \in 0..(tM - 1) : tOut' = get_time_dlp(tM, x, build)
    /\ UNCHANGED <<tM, bsgsVars, dsumVars, mcfeVars, dmVars>>

InitDlp == DlpInit /\ BsgsIdle /\ DsumIdle /\ McfeIdle /\ DmIdle
NextDlp == GetTimeDlp
SpecDlp == InitDlp /\ [][NextDlp]_vars

\* ------------------------------------------------------------------------
\* Claims on DSum
\* ------------------------------------------------------------------------

RECURSIVE SumOfPayloads(_, _)
SumOfPayloads(enc, k) ==
    IF k = 0 THEN 0 ELSE (SumOfPayloads(enc, k - 1) + enc[k].x) % Order

\* C1: combine of the ciphertexts all n clients encoded under the same key
\* list and label equals the sum of their payloads in the scalar field
C1_DSumCorrect ==
    (dsSum.kind = "Some") => (dsSum.val = SumOfPayloads(dsEnc, dsN))

C1_Witness ==
    /\ dsSum.kind = "Some" /\ dsN = 3
    /\ \E i \in 1..dsN : dsEnc[i].c # dsEnc[i].x
    /\ \E i, j \in 1..dsN : dsKeys[i][1] # dsKeys[j][1]
    /\ dsSum.val # 0

\* C6: in a complete round, re-encoding one client's payload x as x + delta
\* changes combine of all ciphertexts by exactly delta and leaves the other
\* clients' ciphertexts unchanged
C6_DSumMasking ==
    [][\A i \in 1..dsN :
         (DsAllEncoded(dsEnc) /\ dsEnc'[i] # dsEnc[i])
            => /\ combine(DsCipherTexts(dsEnc')) =
                    ScalarAdd(combine(DsCipherTexts(dsEnc)),
                              ScalarSub(dsEnc'[i].x, dsEnc[i].x))
               /\ \A j \in 1..dsN : j # i => dsEnc'[j].c = dsEnc[j].c]_vars

C6_Witness ==
    /\ dsRe /\ DsAllEncoded(dsEnc) /\ dsN = 3
    /\ \E i \in 1..dsN : dsEnc[i].c # dsEnc[i].x

\* C12: the mask client i added for a peer j is the negation of the mask
\* client j added for i under the same label, the mask a client adds for its
\* own entry is 0, and a client whose key list holds only its own key encodes
\* x as x
C12_MasksCancel ==
    \A i \in 1..dsN :
        dsEnc[i].done
            => /\ dsEnc[i].h[i] = 0
               /\ \A j \in 1..dsN :
                     (j # i /\ dsEnc[j].done)
                         => dsEnc[i].h[j] = ScalarNeg(dsEnc[j].h[i])
               /\ (dsN = 1) => dsEnc[i].c = dsEnc[i].x

C12_Witness ==
    /\ dsN = 3 /\ DsAllEncoded(dsEnc)
    /\ \A i, j \in 1..dsN : i # j => dsEnc[i].h[j] # 0
    /\ \E i, j \in 1..dsN : dsKeys[i][1] = dsKeys[j][1] /\ i # j
    /\ \E i \in 1..dsN : dsEnc[i].x # 0

\* a round of a single client, whose key list is its own key
C12_WitnessAlone ==
    dsN = 1 /\ dsEnc[1].done /\ dsEnc[1].x # 0 /\ dsEnc[1].c = dsEnc[1].x

\* ------------------------------------------------------------------------
\* Claims on MCFE
\* ------------------------------------------------------------------------

InnerProduct(a, b) ==
    ScalarSum([j \in 1..ZipLen(a, b) |-> ScalarMul(a[j], b[j])])

\* C4: with the keys of setup(n, m), the ciphertexts and the partial keys
\* combined in the same client order, decrypt returns
\* (sum over i of <x_i, y_i>) * G
C4_McfeCorrect ==
    (mcRes.kind = "Some")
        => mcRes.val = G1Mul(G1Generator,
                ScalarSum([i \in 1..mcN |-> InnerProduct(mcX[i], mcY[i])]))

C4_Witness ==
    /\ mcRes.kind = "Some" /\ mcN = 2 /\ mcM = 2
    /\ mcChan[1].id = 2
    /\ mcX[1] # mcX[2] /\ mcY[1] # mcY[2]
    /\ mcRes.val # G1Identity

\* ------------------------------------------------------------------------
\* Claims on DMCFE
\* ------------------------------------------------------------------------

DmAllReady == \A i \in 1..dmN : dmPc[i] = "Ready"
DmMixedLabels == \E i, j \in 1..dmN : dmSent[i].l # dmSent[j].l

\* C2: with every client set up against the same full key list, the
\* ciphertexts ordered by client id and dk = key_comb(y, all n shares),
\* decrypt returns e(G1, G2)^<x, y>, for each of the decryption keys
C2_DmcfeCorrect ==
    (dmUser.kind = "Ok")
        => \A r \in 1..NB_DK :
              dmUser.res[r] =
                  GtMul(pairing(G1Generator, G2Generator),
                        ScalarSum([i \in 1..dmN |->
                                     ScalarMul(dmDkList[r].y[i], dmSent[i].x)]))

C2_Witness ==
    /\ dmUser.kind = "Ok"
    /\ dmDkList[1].y # dmDkList[2].y
    /\ dmUser.res[1] # dmUser.res[2]
    /\ dmCi[1].id # 1
    /\ \E i \in 1..dmN : dmSk[i].t # <<0, 0, 0, 0>>
    /\ \E i, j \in 1..dmN : dmSent[i].x # dmSent[j].x

\* C3: once every client has run setup against the full list of DSum public
\* keys, the entry-wise sum of the matrices Ti is the zero matrix, in every
\* later state
C3_TSumZero ==
    DmAllReady
        => \A e \in 1..4 : ScalarSum([i \in 1..dmN |-> dmSk[i].t[e]]) = 0

C3_Witness ==
    /\ DmAllReady /\ dmUser.kind = "Ok"
    /\ Len(dmCi) = dmN /\ Len(dmDkList) = NB_DK
    /\ \A i \in 1..dmN : \E e \in 1..4 : dmSk[i].t[e] # 0
    /\ \E i, j \in 1..dmN : dmDsk[i][1] # dmDsk[j][1]

\* the dk bus holds the share of every client for the y asked last
DmKeyBatchComplete ==
    /\ Len(dmDkBus) = dmN
    /\ Len(dmY) = Len(dmDkList) + 1
    /\ \A i \in 1..dmN :
          \E k \in 1..Len(dmDkBus) :
              dmDkBus[k] = [id |-> i, d |-> dkey_gen_share(i, dmSk[i], dmY[Len(dmY)])]
\* the ci bus holds the ciphertext of every client, all under one label
DmCtBatchComplete ==
    /\ Len(dmCi) = dmN
    /\ \A i \in 1..dmN :
          \E k \in 1..Len(dmCi) :
              /\ dmCi[k].id = i
              /\ dmCi[k].l = dmCi[1].l
              /\ dmCi[k].c = dmcfe_encrypt(dmSent[i].x, dmSk[i], dmCi[1].l)

\* C13: in every interleaving of the client threads and the user thread,
\* key_comb is called only once the n partial keys for the y asked are
\* received, and decrypt only once the n ciphertexts, all under one label,
\* and the decryption keys are received
C13_WaitsForBatch ==
    [][/\ (dmDkList' # dmDkList) => DmKeyBatchComplete
       /\ (dmUser' # dmUser /\ dmUser'.kind = "Ok")
             => (DmCtBatchComplete /\ Len(dmDkList) = NB_DK)]_vars

C13_Witness ==
    /\ dmUser.kind = "Ok" /\ Len(dmDkList) = NB_DK
    /\ dmCi[1].id = 2
    /\ dmDkList[1].y # dmDkList[2].y
    /\ dmDkList[1].d # dmDkList[2].d

\* C14: a client first publishes its DSum public key (Uninitialized ->
\* KeysPublished), gets its private key only when every peer has published
\* (KeysPublished -> Ready), encrypts and answers only when Ready, and its
\* private key (s, T) is never changed by encrypt or dkey_gen_share
C14_ClientOrdering ==
    [][\A i \in 1..dmN :
         /\ (dmPc'[i] # dmPc[i])
               => \/ /\ dmPc[i] = "Uninitialized" /\ dmPc'[i] = "KeysPublished"
                     /\ dmDsk'[i][2] = smul_in_g1(dmDsk'[i][1])
                     /\ dmSk'[i] = NoSk
                  \/ /\ dmPc[i] = "KeysPublished" /\ dmPc'[i] = "Ready"
                     /\ \A j \in 1..dmN : dmPc[j] # "Uninitialized"
                     /\ dmDsk' = dmDsk
         /\ (dmSk'[i] # dmSk[i])
               => (dmPc[i] = "KeysPublished" /\ dmPc'[i] = "Ready")
         /\ (dmSent'[i] # dmSent[i] \/ dmAns'[i] # dmAns[i])
               => (dmPc[i] = "Ready" /\ dmPc'[i] = "Ready" /\ dmSk'[i] = dmSk[i])]_vars

C14_Witness ==
    /\ dmPc[1] = "Ready" /\ dmPc[2] = "KeysPublished"
    /\ dmSent[1].done /\ dmAns[1] >= 1
    /\ dmSk[1].t # <<0, 0, 0, 0>> /\ dmSk[1].s # <<0, 0>>

\* the partial keys on the dk bus, in order of arrival
DmBusKeys == [k \in 1..Len(dmDkBus) |-> dmDkBus[k].d]
\* (sum over i of y[i] * s_i) * G2, component by component
DmSumYS(y) ==
    <<smul_in_g2(ScalarSum([i \in 1..dmN |-> ScalarMul(y[i], dmSk[i].s[1])])),
      smul_in_g2(ScalarSum([i \in 1..dmN |-> ScalarMul(y[i], dmSk[i].s[2])]))>>

\* C15: key_comb gives the same key for every order of the partial keys
\* received so far, and the key combined from the shares of all n clients
\* for y, in whatever order they arrived, is d = (sum of y[i] * s_i) * G2
C15_KeyCombOrderFree ==
    /\ \A r \in 1..Len(dmDkList) : dmDkList[r].d = DmSumYS(dmDkList[r].y)
    /\ (dmDkBus # <<>>)
          => \A p \in Permutations(1..Len(dmDkBus)) :
                dmcfe_key_comb(dmY[Len(dmY)], [k \in 1..Len(dmDkBus) |-> DmBusKeys[p[k]]])
                    = dmcfe_key_comb(dmY[Len(dmY)], DmBusKeys)

C15_Witness ==
    /\ Len(dmDkList) = 1 /\ Len(dmDkBus) = dmN
    /\ dmDkBus[1].id = dmN
    /\ dmDkBus[1].d # dmDkBus[2].d
    /\ dmDkList[1].d # <<G2Identity, G2Identity>>
    /\ \A i \in 1..dmN : dmSk[i].t # <<0, 0, 0, 0>>
    /\ dmcfe_key_comb(dmY[2], DmBusKeys).d = DmSumYS(dmY[2])

\* C9 as stated: ciphertexts that were not all encrypted under the same
\* label are never decrypted to a Gt value
C9_MixedNeverDecrypted ==
    DmMixedLabels => (dmUser.kind # "Ok" /\ dmLib.kind # "Gt")

\* C9 amended: decrypt_simulation rejects a batch with mixed labels in
\* check_labels, with an error and before any call of decrypt, and accepts a
\* batch under one label
C9_MixedRejectedByCheckLabels ==
    (dmUser.kind # "None")
        => /\ DmMixedLabels => (dmUser.kind = "Err" /\ dmUser.res = <<>>)
           /\ ~DmMixedLabels => dmUser.kind = "Ok"

C9_Witness ==
    dmUser.kind = "Err" /\ DmMixedLabels /\ dmLib.kind = "Gt" /\ dmLib.mixed

\* ------------------------------------------------------------------------
\* Claims on BSGS
\* ------------------------------------------------------------------------

BsgsCalled == bRes.kind # "NoCall"
BsgsPrecomputed == ~precomputation(bM).panic
\* P - k*m*G is one of the baby steps 0*G .. (m-1)*G
InBabySteps(P, k, m) ==
    \E i \in 0..(m - 1) : G1Sub(P, G1Mul(G1Generator, k * m)) = G1Mul(G1Generator, i)

\* C5: for x < m*n with m*n below the group order, bsgs(x*G, m, n) = Ok(x)
C5_BsgsRoundTrip ==
    (BsgsCalled /\ bX < bM * bN /\ bM * bN < Order)
        => (bRes.kind = "Ok" /\ bRes.val = bX)

C5_Witness ==
    /\ bRes.kind = "Ok" /\ bX < bM * bN /\ bM * bN < Order
    /\ bRes.k >= 2 /\ bX % bM # 0 /\ bRes.val = bX

\* C7: when the giant-step loop runs through all k in 0..n without a hit
\* (in particular for P = x*G with m*n <= x below the group order), bsgs
\* returns Err(NotFound) and no Ok value
C7_BsgsNotFound ==
    (BsgsCalled /\ BsgsPrecomputed)
        => /\ (\A k \in 0..(bN - 1) : ~InBabySteps(bP, k, bM))
               => (bRes.kind = "Err" /\ bRes.lookups = bN)
           /\ (bM * bN <= bX) => bRes.kind = "Err"

C7_Witness ==
    /\ bRes.kind = "Err" /\ bN >= 2 /\ bM >= 2
    /\ bM * bN <= bX /\ bRes.lookups = bN

\* C8 as stated, for the m >= 1 and n >= 1 of the BSGS contract: bsgs(0*G, m, n)
\* returns Ok(0) and no iteration of the giant-step loop is executed
C8_ZeroWithoutLoop ==
    (BsgsCalled /\ BsgsPrecomputed /\ bX = 0 /\ bM >= 1 /\ bN >= 1)
        => (bRes.kind = "Ok" /\ bRes.val = 0 /\ bRes.lookups = 0)

\* C8 amended: for m >= 1 and n >= 1, bsgs(0*G, m, n) returns Ok(0) from the
\* first iteration of the giant-step loop (one hash and lookup, k = 0); with
\* m = 0 or n = 0 it returns Err(NotFound)
C8_ZeroFirstIteration ==
    (BsgsCalled /\ BsgsPrecomputed /\ bX = 0)
        => IF bM >= 1 /\ bN >= 1
           THEN bRes.kind = "Ok" /\ bRes.val = 0 /\ bRes.lookups = 1 /\ bRes.k = 0
           ELSE bRes.kind = "Err"

C8_Witness ==
    bX = 0 /\ bM >= 2 /\ bN >= 2 /\ bRes.kind = "Ok" /\ bRes.lookups = 1

\* two distinct indices of 0..m give the same digest
BabyStepCollision(m) ==
    \E i, j \in 0..(m - 1) :
        i # j /\ Sha256OfG1(G1Mul(G1Generator, i)) = Sha256OfG1(G1Mul(G1Generator, j))

\* C11: when two distinct baby-step indices give the same digest, bsgs
\* produces no Ok result and hands the collision to its caller as a returned
\* error value, not as a panic
C11_CollisionReturned ==
    (BsgsCalled /\ BabyStepCollision(bM))
        => (bRes.kind # "Ok" /\ bRes.kind # "Panic")

\* C16: whenever bsgs(P, m, n) returns Ok(x), x * G = P, x = k * m + i with
\* 0 <= i < m and 0 <= k < n (so x < m * n), and k is the smallest giant-step
\* index for which P - k*m*G is a baby step
C16_BsgsSound ==
    (bRes.kind = "Ok")
        => /\ G1Mul(G1Generator, ScalarFromRaw(bRes.val)) = bP
           /\ 0 <= bRes.k /\ bRes.k < bN
           /\ \E i \in 0..(bM - 1) : bRes.val = bRes.k * bM + i
           /\ bRes.val < bM * bN
           /\ InBabySteps(bP, bRes.k, bM)
           /\ \A k \in 0..(bRes.k - 1) : ~InBabySteps(bP, k, bM)

C16_Witness ==
    /\ bRes.kind = "Ok" /\ bM * bN > Order
    /\ bRes.k >= 2 /\ bRes.k = bN - 1
    /\ bRes.val # bRes.k * bM

\* ------------------------------------------------------------------------
\* Claims on get_time_dlp
\* ------------------------------------------------------------------------

\* C10: get_time_dlp(m) fails with "Size of m is too big" exactly when
\* m > u32::MAX^2, and for 1 <= m <= u32::MAX^2 it passes the check and
\* derives n = floor(sqrt(m)) + 1 <= u32::MAX
C10_RangePrecondition ==
    (tOut.kind # "NoCall" /\ tM >= 1)
        => /\ (tOut.kind = "ErrTooBig") <=> (tM > U32Max * U32Max)
           /\ (1 <= tM /\ tM <= U32Max * U32Max)
                 => (tOut.n = SqrtAsU32(tM) + 1 /\ tOut.n <= U32Max)

====
